---- MODULE Spec2Model ----
(***************************************************************************)
(* Random-access gadget of the circuit builder                             *)
(* (src/src/gadgets/random_access.rs).                                     *)
(*                                                                         *)
(* The builder is modelled by its gate list and its list of copy           *)
(* constraints ("connections").  The three entry points random_access,     *)
(* random_access_extension and random_access_padded are operators on a     *)
(* builder value, translated statement by statement; one action per entry  *)
(* point applies the operator to the builder held in the variables.        *)
(***************************************************************************)
EXTENDS Integers, Sequences, FiniteSets, TLC

VARIABLES gates, copy_constraints, debug_assertions, panicked, calls, witness

vars == <<gates, copy_constraints, debug_assertions, panicked, calls, witness>>

(***************************************************************************)
(* Bounds of the model and the one literal of the source.                  *)
(***************************************************************************)
D == 2

ShortLen == 3

MaxCalls == 2

PadLength == 8

LongLen == PadLength + 1

Coords == 0 .. (D - 1)

(***************************************************************************)
(* Targets.  A target is a wire of a gate or a virtual target; a virtual   *)
(* target carries gate = -1 so that both kinds are records of one shape.   *)
(***************************************************************************)
VirtualTarget(index) == [gate |-> -1, input |-> <<"virtual", index, 0>>]

Wire(gate_index, input) == [gate |-> gate_index, input |-> input]

IsVirtual(t) == t.gate = -1

(***************************************************************************)
(* The lookup gate: its parameters and its three wire-address functions.   *)
(* Slots are kept symbolic: distinct (kind, position, copy) are distinct   *)
(* wires of the gate.                                                      *)
(***************************************************************************)
RandomAccessGate(num_copies, vec_size) ==
    [num_copies |-> num_copies, vec_size |-> vec_size]

wire_list_item(i, copy) == <<"list_item", i, copy>>

wire_access_index(copy) == <<"access_index", 0, copy>>

wire_claimed_element(copy) == <<"claimed_element", 0, copy>>

(***************************************************************************)
(* Builder operations used by the gadget.  A builder value b is a record   *)
(* with the fields gates, copy_constraints, debug_assertions, panicked.    *)
(***************************************************************************)
add_gate(b, gate) ==
    [builder |-> [b EXCEPT !.gates = Append(@, gate)], index |-> Len(b.gates)]

connect(b, x, y) == [b EXCEPT !.copy_constraints = Append(@, <<x, y>>)]

RECURSIVE connect_each(_, _)
connect_each(b, pairs) ==
    IF pairs = <<>> THEN b
    ELSE connect_each(connect(b, Head(pairs)[1], Head(pairs)[2]), Tail(pairs))

connect_extension(b, src, dest) ==
    connect_each(b, [k \in 1 .. D |-> <<src[k - 1], dest[k - 1]>>])

zero_extension == [c \in Coords |-> VirtualTarget(0)]

panic(b) == [b EXCEPT !.panicked = TRUE]

(***************************************************************************)
(* Vec::resize(new_len, value): extends with value, or truncates.          *)
(***************************************************************************)
resize(v, new_len, value) ==
    [k \in 1 .. new_len |-> IF k <= Len(v) THEN v[k] ELSE value]

(***************************************************************************)
(* Variants of the entry points with one slip each, used to show that the  *)
(* properties below depend on the code: random_access without the          *)
(* connection of the access index, and random_access without the           *)
(* length-1 shortcut.                                                      *)
(***************************************************************************)
random_access_no_index(b, access_index, claimed_element, v) ==
    IF b.debug_assertions /\ v = <<>> THEN panic(b)
    ELSE IF Len(v) = 1 THEN connect(b, claimed_element, v[1])
    ELSE LET gate == RandomAccessGate(1, Len(v))
             added == add_gate(b, gate)
             gate_index == added.index
             copy == 0
             items == [k \in 1 .. Len(v) |->
                         <<v[k], Wire(gate_index, wire_list_item(k - 1, copy))>>]
         IN  connect_each(added.builder,
                 items
                 \o <<(<<claimed_element,
                        Wire(gate_index, wire_claimed_element(copy))>>)>>)

random_access_always_gate(b, access_index, claimed_element, v) ==
    IF b.debug_assertions /\ v = <<>> THEN panic(b)
    ELSE LET gate == RandomAccessGate(1, Len(v))
             added == add_gate(b, gate)
             gate_index == added.index
             copy == 0
             items == [k \in 1 .. Len(v) |->
                         <<v[k], Wire(gate_index, wire_list_item(k - 1, copy))>>]
         IN  connect_each(added.builder,
                 items
                 \o <<(<<access_index, Wire(gate_index, wire_access_index(copy))>>)>>
                 \o <<(<<claimed_element,
                        Wire(gate_index, wire_claimed_element(copy))>>)>>)

(***************************************************************************)
(* fn random_access                                                        *)
(***************************************************************************)
random_access(b, access_index, claimed_element, v) ==
    IF b.debug_assertions /\ v = <<>> THEN panic(b)
    ELSE IF Len(v) = 1 THEN connect(b, claimed_element, v[1])
    ELSE LET gate == RandomAccessGate(1, Len(v))
             added == add_gate(b, gate)
             gate_index == added.index
             copy == 0
             items == [k \in 1 .. Len(v) |->
                         <<v[k], Wire(gate_index, wire_list_item(k - 1, copy))>>]
         IN  connect_each(added.builder,
                 items
                 \o <<(<<access_index, Wire(gate_index, wire_access_index(copy))>>)>>
                 \o <<(<<claimed_element,
                        Wire(gate_index, wire_claimed_element(copy))>>)>>)

(***************************************************************************)
(* The loop over the copies with the access index wired to the slot of     *)
(* copy 0 in every iteration.                                              *)
(***************************************************************************)
RECURSIVE extension_copies_index0(_, _, _, _, _, _)
extension_copies_index0(b, gate_index, access_index, claimed_element, v, copy) ==
    IF copy >= D THEN b
    ELSE LET items == [k \in 1 .. Len(v) |->
                         <<v[k][copy], Wire(gate_index, wire_list_item(k - 1, copy))>>]
             b1 == connect_each(b,
                     items
                     \o <<(<<access_index, Wire(gate_index, wire_access_index(0))>>)>>
                     \o <<(<<claimed_element[copy],
                            Wire(gate_index, wire_claimed_element(copy))>>)>>)
         IN  extension_copies_index0(b1, gate_index, access_index, claimed_element,
                                     v, copy + 1)

(***************************************************************************)
(* fn random_access_extension                                              *)
(***************************************************************************)
RECURSIVE extension_copies(_, _, _, _, _, _)
extension_copies(b, gate_index, access_index, claimed_element, v, copy) ==
    IF copy >= D THEN b
    ELSE LET items == [k \in 1 .. Len(v) |->
                         <<v[k][copy], Wire(gate_index, wire_list_item(k - 1, copy))>>]
             b1 == connect_each(b,
                     items
                     \o <<(<<access_index, Wire(gate_index, wire_access_index(copy))>>)>>
                     \o <<(<<claimed_element[copy],
                            Wire(gate_index, wire_claimed_element(copy))>>)>>)
         IN  extension_copies(b1, gate_index, access_index, claimed_element, v, copy + 1)

\* random_access_extension with coordinate 0 of the claimed element wired into
\* every copy.
random_access_extension_claimed0(b, access_index, claimed_element, v) ==
    IF b.debug_assertions /\ v = <<>> THEN panic(b)
    ELSE IF Len(v) = 1 THEN connect_extension(b, claimed_element, v[1])
    ELSE LET gate == RandomAccessGate(D, Len(v))
             added == add_gate(b, gate)
         IN  extension_copies(added.builder, added.index, access_index,
                              [c \in Coords |-> claimed_element[0]], v, 0)

random_access_extension(b, access_index, claimed_element, v) ==
    IF b.debug_assertions /\ v = <<>> THEN panic(b)
    ELSE IF Len(v) = 1 THEN connect_extension(b, claimed_element, v[1])
    ELSE LET gate == RandomAccessGate(D, Len(v))
             added == add_gate(b, gate)
         IN  extension_copies(added.builder, added.index, access_index,
                              claimed_element, v, 0)

(***************************************************************************)
(* fn random_access_padded                                                 *)
(***************************************************************************)
\* random_access_padded without the length-1 shortcut, and random_access_padded
\* padding also a list that is exactly min_length long.
random_access_padded_no_shortcut(b, access_index, claimed_element, v, min_length) ==
    IF b.debug_assertions /\ v = <<>> THEN panic(b)
    ELSE LET zero == zero_extension
             padded == IF Len(v) < min_length THEN resize(v, PadLength, zero) ELSE v
         IN  random_access_extension(b, access_index, claimed_element, padded)

random_access_padded_le(b, access_index, claimed_element, v, min_length) ==
    IF b.debug_assertions /\ v = <<>> THEN panic(b)
    ELSE IF Len(v) = 1 THEN connect_extension(b, claimed_element, v[1])
    ELSE LET zero == zero_extension
             padded == IF Len(v) <= min_length THEN resize(v, PadLength, zero) ELSE v
         IN  random_access_extension(b, access_index, claimed_element, padded)

random_access_padded(b, access_index, claimed_element, v, min_length) ==
    IF b.debug_assertions /\ v = <<>> THEN panic(b)
    ELSE IF Len(v) = 1 THEN connect_extension(b, claimed_element, v[1])
    ELSE LET zero == zero_extension
             padded == IF Len(v) < min_length THEN resize(v, PadLength, zero) ELSE v
         IN  random_access_extension(b, access_index, claimed_element, padded)

(***************************************************************************)
(* Inputs of the callers.  Three extension elements of virtual targets     *)
(* (two that fill the lists, one fresh one), one index target, and the     *)
(* zero constant VirtualTarget(0).                                         *)
(***************************************************************************)
Element(j) == [c \in Coords |-> VirtualTarget(j * D + c)]

IndexTarget == VirtualTarget(4 * D)

ListOf(n) == [k \in 1 .. n |-> Element(1 + ((k - 1) % 2))]

BaseListOf(n) == [k \in 1 .. n |-> ListOf(n)[k][0]]

Lens == (0 .. ShortLen) \cup {LongLen}

MinLengths == {ShortLen, PadLength + 2}

ClaimedElements == {Element(1), Element(3)}

Builder ==
    [gates |-> gates, copy_constraints |-> copy_constraints,
     debug_assertions |-> debug_assertions, panicked |-> panicked]

CallRecord(fn, access_index, claimed_element, v, min_length, after) ==
    [fn |-> fn, access_index |-> access_index, claimed_element |-> claimed_element,
     v |-> v, min_length |-> min_length,
     gates_before |-> Len(gates), constraints_before |-> Len(copy_constraints),
     gates_after |-> Len(after.gates),
     constraints_after |-> Len(after.copy_constraints),
     panicked |-> after.panicked]

Invoke(fn, access_index, claimed_element, v, min_length, after) ==
    /\ ~panicked
    /\ Len(calls) < MaxCalls
    /\ gates' = after.gates
    /\ copy_constraints' = after.copy_constraints
    /\ panicked' = after.panicked
    /\ calls' = Append(calls,
                  CallRecord(fn, access_index, claimed_element, v, min_length, after))
    /\ UNCHANGED <<debug_assertions, witness>>

RandomAccess ==
    \E n \in Lens, ce \in ClaimedElements :
        Invoke("random_access", IndexTarget, ce[0], BaseListOf(n), 0,
               random_access(Builder, IndexTarget, ce[0], BaseListOf(n)))

RandomAccessExtension ==
    \E n \in Lens, ce \in ClaimedElements :
        Invoke("random_access_extension", IndexTarget, ce, ListOf(n), 0,
               random_access_extension(Builder, IndexTarget, ce, ListOf(n)))

RandomAccessPadded ==
    \E n \in Lens, ce \in ClaimedElements, min_length \in MinLengths :
        Invoke("random_access_padded", IndexTarget, ce, ListOf(n), min_length,
               random_access_padded(Builder, IndexTarget, ce, ListOf(n), min_length))

NoWitness == <<>>

Init ==
    /\ gates = <<>>
    /\ copy_constraints = <<>>
    /\ debug_assertions \in BOOLEAN
    /\ panicked = FALSE
    /\ calls = <<>>
    /\ witness = NoWitness

Next == RandomAccess \/ RandomAccessExtension \/ RandomAccessPadded

Spec == Init /\ [][Next]_vars

(***************************************************************************)
(* Witnesses: values for the callers' virtual targets.  Elements take two  *)
(* values per coordinate, the index any position up to LongLen, and the    *)
(* zero constant is 0.                                                     *)
(***************************************************************************)
ElemVals == {0, 1}

IndexVals == 0 .. LongLen

FieldVals == IndexVals \cup ElemVals

VirtualIndices == {0} \cup (D .. (4 * D))

WitnessesOver(S) ==
    { [i \in S |-> IF i = 0 THEN 0 ELSE IF i = 4 * D THEN a ELSE e[i]] :
        a \in IndexVals, e \in [S \ {0, 4 * D} -> ElemVals] }

Witnesses == WitnessesOver(VirtualIndices)

InitProve ==
    /\ gates = <<>>
    /\ copy_constraints = <<>>
    /\ debug_assertions \in BOOLEAN
    /\ panicked = FALSE
    /\ calls = <<>>
    /\ witness \in Witnesses

NextProve ==
    /\ calls = <<>>
    /\ (RandomAccess \/ RandomAccessExtension \/ RandomAccessPadded)

SpecProve == InitProve /\ [][NextProve]_vars

(***************************************************************************)
(* What one invocation added to the builder, read from the log.            *)
(***************************************************************************)
CallConstraints(k) ==
    SubSeq(copy_constraints, k.constraints_before + 1, k.constraints_after)

CallGateIndices(k) == k.gates_before .. (k.gates_after - 1)

IsBase(k) == k.fn = "random_access"

Copies(k) == IF IsBase(k) THEN {0} ELSE Coords

ClaimedCoord(k, c) == IF IsBase(k) THEN k.claimed_element ELSE k.claimed_element[c]

ItemCoord(k, i, c) == IF IsBase(k) THEN k.v[i + 1] ELSE k.v[i + 1][c]

ValueOf(w, t) == w[t.input[2]]

UsedIndices(k) ==
    {k.access_index.input[2]}
    \cup {ClaimedCoord(k, c).input[2] : c \in Copies(k)}
    \cup {ItemCoord(k, i, c).input[2] : i \in 0 .. (Len(k.v) - 1), c \in Copies(k)}

(***************************************************************************)
(* Satisfiability of the constraints one invocation emitted, under a       *)
(* witness w for the callers' targets: some assignment to the wires of the *)
(* new gate makes every connection an equality and the gate's contract     *)
(* hold (for each copy, an in-range access index selects the list item the *)
(* claimed element must equal).  Every connection the gadget emits has a   *)
(* virtual target on one side, so the values a gate wire may take are the  *)
(* values of the virtual targets connected to it, or any value if none is. *)
(***************************************************************************)
Satisfied(k, w) ==
    LET cs == CallConstraints(k)
        Peers(x) == {cs[j][1] : j \in {j \in DOMAIN cs : cs[j][2] = x}}
                    \cup {cs[j][2] : j \in {j \in DOMAIN cs : cs[j][1] = x}}
        Cand(x) == {ValueOf(w, t) : t \in {t \in Peers(x) : IsVirtual(t)}}
        Allowed(x) == IF Cand(x) = {} THEN FieldVals ELSE Cand(x)
        WiresOf == {cs[j][1] : j \in DOMAIN cs} \cup {cs[j][2] : j \in DOMAIN cs}
    IN  /\ \A j \in DOMAIN cs :
              IsVirtual(cs[j][1]) /\ IsVirtual(cs[j][2])
                  => ValueOf(w, cs[j][1]) = ValueOf(w, cs[j][2])
        /\ \A x \in WiresOf : ~IsVirtual(x) => Cardinality(Cand(x)) <= 1
        /\ \A g \in CallGateIndices(k) : \A copy \in 0 .. (gates[g + 1].num_copies - 1) :
              \E a \in Allowed(Wire(g, wire_access_index(copy))) :
              \E e \in Allowed(Wire(g, wire_claimed_element(copy))) :
                  a \in 0 .. (gates[g + 1].vec_size - 1)
                      => e \in Allowed(Wire(g, wire_list_item(a, copy)))

(***************************************************************************)
(* C1: for random_access and random_access_extension on a list of length   *)
(* n >= 2 and a witness whose access index i is in [0, n), the constraints *)
(* the invocation emitted are satisfiable if and only if the claimed       *)
(* element equals v[i] in every coordinate.                                *)
(***************************************************************************)
IsLookup(k) ==
    /\ k.fn \in {"random_access", "random_access_extension"}
    /\ Len(k.v) >= 2

ClaimedMatches(k, w, i) ==
    \A c \in Copies(k) : ValueOf(w, ClaimedCoord(k, c)) = ValueOf(w, ItemCoord(k, i, c))

LookupSatisfiedIffClaimedIsSelected ==
    \A j \in DOMAIN calls :
        LET k == calls[j]
            i == ValueOf(witness, k.access_index)
        IN  IsLookup(k) /\ i \in 0 .. (Len(k.v) - 1)
                => (Satisfied(k, witness) <=> ClaimedMatches(k, witness, i))

\* An extension lookup whose claimed element is right in coordinate 0 and
\* wrong in coordinate 1 only, and which is therefore unsatisfiable.
OneCoordinateCorrupted ==
    \E j \in DOMAIN calls :
        LET k == calls[j]
            i == ValueOf(witness, k.access_index)
        IN  /\ k.fn = "random_access_extension"
            /\ Len(k.v) = ShortLen
            /\ i = Len(k.v) - 1
            /\ k.claimed_element = Element(3)
            /\ ValueOf(witness, k.claimed_element[0]) = ValueOf(witness, k.v[i + 1][0])
            /\ ValueOf(witness, k.claimed_element[1]) # ValueOf(witness, k.v[i + 1][1])
            /\ \A c \in Coords \ {0, 1} :
                 ValueOf(witness, k.claimed_element[c]) = ValueOf(witness, k.v[i + 1][c])
            /\ ~Satisfied(k, witness)

(***************************************************************************)
(* C2: an invocation of any entry point with an empty list fails and       *)
(* leaves the builder's gates and connections as they were.                *)
(***************************************************************************)
EmptyListRejected ==
    \A j \in DOMAIN calls :
        calls[j].v = <<>>
            => /\ calls[j].panicked
               /\ calls[j].gates_after = calls[j].gates_before
               /\ calls[j].constraints_after = calls[j].constraints_before

(***************************************************************************)
(* C3: an invocation of any entry point with a list of length 1 allocates  *)
(* no gate and adds exactly the connections claimed_element = v[0], one    *)
(* per coordinate; the access index is in none of them, and every witness  *)
(* in which the claimed element equals v[0] satisfies them, whatever its   *)
(* access index (checked when the invocation returns: what it added never  *)
(* changes afterwards).                                                    *)
(***************************************************************************)
SingletonConnectsDirectly ==
    \A j \in DOMAIN calls :
        LET k == calls[j]
            cs == CallConstraints(k)
        IN  Len(k.v) = 1
                => /\ ~k.panicked
                   /\ k.gates_after = k.gates_before
                   /\ Len(cs) = Cardinality(Copies(k))
                   /\ {cs[x] : x \in DOMAIN cs}
                        = {<<ClaimedCoord(k, c), ItemCoord(k, 0, c)>> : c \in Copies(k)}
                   /\ \A x \in DOMAIN cs : k.access_index \notin {cs[x][1], cs[x][2]}
                   /\ j = Len(calls)
                        => \A w \in WitnessesOver(UsedIndices(k)) :
                             ClaimedMatches(k, w, 0) => Satisfied(k, w)

\* A padded invocation on a one-element list with a larger minimum length,
\* on a builder that already holds a gate.
SingletonPaddedCall ==
    \E j \in DOMAIN calls :
        /\ calls[j].fn = "random_access_padded"
        /\ Len(calls[j].v) = 1
        /\ calls[j].min_length > 1
        /\ calls[j].claimed_element = Element(3)
        /\ calls[j].gates_before = 1
        /\ calls[j].constraints_after = calls[j].constraints_before + D

(***************************************************************************)
(* C4: random_access on a list of length n >= 2 appends one gate with      *)
(* parameters (1, n) and exactly n + 2 connections, all to wires of that   *)
(* gate: v[i] to list-item slot (i, 0), the access index to the            *)
(* access-index slot and the claimed element to the claimed-element slot   *)
(* of copy 0; the earlier gates and connections are unchanged.             *)
(***************************************************************************)
NewCall == calls' # calls

BaseLookupConnections(k, g) ==
    {<<k.v[i + 1], Wire(g, wire_list_item(i, 0))>> : i \in 0 .. (Len(k.v) - 1)}
    \cup {<<k.access_index, Wire(g, wire_access_index(0))>>,
          <<k.claimed_element, Wire(g, wire_claimed_element(0))>>}

BaseLookupFrame ==
    [][NewCall /\ calls'[Len(calls')].fn = "random_access"
               /\ Len(calls'[Len(calls')].v) >= 2
         => LET k == calls'[Len(calls')]
                n == Len(k.v)
                g == Len(gates)
                added == SubSeq(copy_constraints', Len(copy_constraints) + 1,
                                Len(copy_constraints'))
            IN  /\ gates' = Append(gates, [num_copies |-> 1, vec_size |-> n])
                /\ Len(copy_constraints') = Len(copy_constraints) + n + 2
                /\ SubSeq(copy_constraints', 1, Len(copy_constraints)) = copy_constraints
                /\ {added[x] : x \in DOMAIN added} = BaseLookupConnections(k, g)
                /\ panicked' = panicked
                /\ debug_assertions' = debug_assertions]_vars

\* A base lookup of the long list on a builder that already holds a gate.
BaseLookupCall ==
    \E j \in DOMAIN calls :
        /\ calls[j].fn = "random_access"
        /\ Len(calls[j].v) = LongLen
        /\ calls[j].gates_before = 1
        /\ calls[j].gates_after = 2
        /\ calls[j].constraints_after = calls[j].constraints_before + LongLen + 2

(***************************************************************************)
(* C5: random_access_extension on a list of length n >= 2 appends one gate *)
(* with parameters (D, n) and exactly D * (n + 2) connections: coordinate  *)
(* c of v[i] to list-item slot (i, c), coordinate c of the claimed element *)
(* to the claimed-element slot of copy c, and the one access index to the  *)
(* access-index slot of every copy.                                        *)
(***************************************************************************)
ExtensionLookupConnections(access_index, claimed_element, v, g) ==
    {<<v[i + 1][c], Wire(g, wire_list_item(i, c))>> : i \in 0 .. (Len(v) - 1), c \in Coords}
    \cup {<<access_index, Wire(g, wire_access_index(c))>> : c \in Coords}
    \cup {<<claimed_element[c], Wire(g, wire_claimed_element(c))>> : c \in Coords}

ExtensionLookupWiring ==
    \A j \in DOMAIN calls :
        LET k == calls[j]
            cs == CallConstraints(k)
            n == Len(k.v)
        IN  k.fn = "random_access_extension" /\ n >= 2
                => /\ k.gates_after = k.gates_before + 1
                   /\ gates[k.gates_before + 1] = [num_copies |-> D, vec_size |-> n]
                   /\ Len(cs) = D * (n + 2)
                   /\ {cs[x] : x \in DOMAIN cs}
                        = ExtensionLookupConnections(k.access_index, k.claimed_element,
                                                     k.v, k.gates_before)
                   /\ \A c \in Coords :
                        \E x \in DOMAIN cs :
                            cs[x] = <<k.access_index,
                                      Wire(k.gates_before, wire_access_index(c))>>

\* An extension lookup of a short list on a builder that already holds a gate.
ExtensionLookupCall ==
    \E j \in DOMAIN calls :
        /\ calls[j].fn = "random_access_extension"
        /\ Len(calls[j].v) = ShortLen
        /\ calls[j].gates_before = 1
        /\ calls[j].constraints_after = calls[j].constraints_before + D * (ShortLen + 2)

(***************************************************************************)
(* C6: random_access_padded on a list with 2 <= len(v) < min_length        *)
(* allocates a gate whose length parameter is at least min_length.         *)
(***************************************************************************)
IsPaddedLookup(k) == k.fn = "random_access_padded" /\ Len(k.v) >= 2

PaddedReachesMinLength ==
    \A j \in DOMAIN calls :
        LET k == calls[j]
        IN  IsPaddedLookup(k) /\ Len(k.v) < k.min_length
                => /\ k.gates_after = k.gates_before + 1
                   /\ gates[k.gates_before + 1].vec_size >= k.min_length

(***************************************************************************)
(* C7: random_access_padded on a list with len(v) >= 2 wires a list that   *)
(* has v as a prefix and the zero element at every further position: the   *)
(* gate is at least as long as v, list-item slot (i, c) is connected to    *)
(* coordinate c of v[i] for i < len(v) and to coordinate c of the zero     *)
(* element for i >= len(v).                                                *)
(***************************************************************************)
PaddingOnlyAppends ==
    \A j \in DOMAIN calls :
        LET k == calls[j]
            cs == CallConstraints(k)
            g == k.gates_before
        IN  IsPaddedLookup(k)
                => /\ k.gates_after = g + 1
                   /\ gates[g + 1].vec_size >= Len(k.v)
                   /\ \A i \in 0 .. (gates[g + 1].vec_size - 1), c \in Coords :
                        \E x \in DOMAIN cs :
                            cs[x] = << (IF i < Len(k.v) THEN k.v[i + 1][c]
                                                        ELSE zero_extension[c]),
                                       Wire(g, wire_list_item(i, c)) >>

(***************************************************************************)
(* C8: two invocations of random_access_padded with the same min_length    *)
(* and list lengths in [2, min_length] allocate gates with the same        *)
(* (copies, length) parameters.                                            *)
(***************************************************************************)
PaddedCallsShareGateKind ==
    \A j1 \in DOMAIN calls, j2 \in DOMAIN calls :
        LET k1 == calls[j1]
            k2 == calls[j2]
        IN  /\ IsPaddedLookup(k1) /\ IsPaddedLookup(k2)
            /\ k1.min_length = k2.min_length
            /\ Len(k1.v) <= k1.min_length /\ Len(k2.v) <= k2.min_length
            => gates[k1.gates_before + 1] = gates[k2.gates_before + 1]

(***************************************************************************)
(* C9: when len(v) >= min_length and len(v) >= 2, random_access_padded     *)
(* leaves the builder exactly as random_access_extension with the same     *)
(* access index, claimed element and list does from the same builder.      *)
(***************************************************************************)
PaddedPassThrough ==
    [][NewCall /\ calls'[Len(calls')].fn = "random_access_padded"
               /\ Len(calls'[Len(calls')].v) >= 2
               /\ Len(calls'[Len(calls')].v) >= calls'[Len(calls')].min_length
         => LET k == calls'[Len(calls')]
                direct == random_access_extension(Builder, k.access_index,
                                                  k.claimed_element, k.v)
            IN  /\ gates' = direct.gates
                /\ copy_constraints' = direct.copy_constraints
                /\ panicked' = direct.panicked
                /\ gates' = Append(gates, [num_copies |-> D, vec_size |-> Len(k.v)])]_vars

\* A padded invocation whose list is exactly as long as the minimum length.
PaddedPassThroughCall ==
    \E j \in DOMAIN calls :
        /\ calls[j].fn = "random_access_padded"
        /\ Len(calls[j].v) = ShortLen
        /\ calls[j].min_length = ShortLen
        /\ calls[j].gates_before = 1
        /\ gates[2].vec_size = ShortLen

(***************************************************************************)
(* C10: while every invocation has a non-empty list, the builder holds one *)
(* gate per invocation with len(v) >= 2 and none for the others, the gates *)
(* are in call order, every gate wire of a connection an invocation added  *)
(* is a wire of the gate that invocation allocated, and no step removes or *)
(* alters an earlier gate or connection.                                   *)
(***************************************************************************)
AllListsNonEmpty == \A j \in DOMAIN calls : calls[j].v # <<>>

Allocating == {j \in DOMAIN calls : Len(calls[j].v) >= 2}

GatesFollowCalls ==
    AllListsNonEmpty
        => /\ Len(gates) = Cardinality(Allocating)
           /\ \A j \in DOMAIN calls :
                /\ calls[j].gates_after =
                      calls[j].gates_before + (IF j \in Allocating THEN 1 ELSE 0)
                /\ calls[j].gates_before = Cardinality({i \in Allocating : i < j})
                /\ \A x \in DOMAIN CallConstraints(calls[j]) :
                     \A side \in 1 .. 2 :
                        LET t == CallConstraints(calls[j])[x][side]
                        IN  ~IsVirtual(t)
                                => j \in Allocating /\ t.gate = calls[j].gates_before

BuilderOnlyGrows ==
    /\ Len(gates') >= Len(gates)
    /\ SubSeq(gates', 1, Len(gates)) = gates
    /\ Len(copy_constraints') >= Len(copy_constraints)
    /\ SubSeq(copy_constraints', 1, Len(copy_constraints)) = copy_constraints

OneGatePerLookupInCallOrder == [](GatesFollowCalls) /\ [][BuilderOnlyGrows]_vars

\* Two allocating invocations in a row, a base one and then a padded one.
TwoLookupsInOrder ==
    /\ Len(calls) = 2
    /\ AllListsNonEmpty
    /\ calls[1].fn = "random_access" /\ Len(calls[1].v) = ShortLen
    /\ calls[2].fn = "random_access_padded" /\ Len(calls[2].v) = 2
    /\ Len(gates) = 2
    /\ calls[2].gates_before = 1

====
